---- MODULE Spec2Model ----
(***************************************************************************)
(* Page-level pruning over the encoded primary-key column                  *)
(* (src/mito2/src/sst/parquet/page_prune.rs).                              *)
(*                                                                         *)
(* Two state machines share this module:                                   *)
(*   Spec           PagePruningPredicateBuilder::filter_map_physical_expr  *)
(*                  applied to a candidate predicate under a region schema *)
(*                  and a one-field row codec;                             *)
(*   SpecPrefixEnd  get_prefix_end_key applied to a byte string.           *)
(***************************************************************************)
EXTENDS Integers, Sequences, FiniteSets, TLC

VARIABLES
    pc,           \* position of the modelled call
    read_format,  \* the region schema seen through ReadFormat
    codec,        \* encoding table of the one-field string codec
    exprs,        \* predicate.exprs, the candidate expressions
    out,          \* Vec returned by filter_map_physical_expr
    origin,       \* for each element of out, its candidate's index in exprs
    key,          \* argument of get_prefix_end_key
    end_key,      \* value returned by get_prefix_end_key
    node,         \* a DecodePrimaryKey node
    other,        \* the node a DecodePrimaryKey node is compared with
    input,        \* the further arguments of the modelled call
    ret,          \* the value the modelled call returns
    decode_calls, \* number of times the call has invoked the codec's decode
    try_new_calls \* the calls made to PagePruningPredicate::try_new

call_vars == <<node, other, input, ret, decode_calls, try_new_calls>>

vars == <<pc, read_format, codec, exprs, out, origin, key, end_key,
          node, other, input, ret, decode_calls, try_new_calls>>

\* value of a variable the running specification does not use
Idle == <<>>

\* the variables of the other calls, unused
CallIdle ==
    /\ node = Idle
    /\ other = Idle
    /\ input = Idle
    /\ ret = Idle
    /\ decode_calls = 0
    /\ try_new_calls = <<>>

----------------------------------------------------------------------------
(* Bounds of the model *)

\* longest byte string handed to get_prefix_end_key
MaxKeyLen == 3
\* most candidate expressions in one predicate
MaxExprs == 2
\* longest encoding of the key fields that follow the first one
MaxRestLen == 1

----------------------------------------------------------------------------
(* Bytes and byte strings *)

\* 0xFF, the largest u8
ByteMax == 255

\* byte values the model draws from: both ends of u8 and their neighbours
ByteSample == {0, 1, 2, ByteMax - 1, ByteMax}

ByteStrings(n) == UNION {[1..k -> ByteSample] : k \in 0..n}

\* a is a prefix of b
IsPrefix(a, b) == Len(a) <= Len(b) /\ SubSeq(b, 1, Len(a)) = a

\* a < b in unsigned lexicographic order
RECURSIVE BytesLt(_, _)
BytesLt(a, b) ==
    IF b = <<>> THEN FALSE
    ELSE IF a = <<>> THEN TRUE
    ELSE IF a[1] < b[1] THEN TRUE
    ELSE IF a[1] > b[1] THEN FALSE
    ELSE BytesLt(Tail(a), Tail(b))

BytesLe(a, b) == a = b \/ BytesLt(a, b)

AllFF(k) == \A i \in 1..Len(k) : k[i] = ByteMax

----------------------------------------------------------------------------
(* get_prefix_end_key *)

\* the reverse scan of the loop, i being the position looked at
RECURSIVE prefix_end_scan(_, _)
prefix_end_scan(k, i) ==
    IF i = 0 THEN <<0>>
    ELSE IF k[i] < ByteMax
         THEN [SubSeq(k, 1, i) EXCEPT ![i] = k[i] + 1]
         ELSE prefix_end_scan(k, i - 1)

\* scans from the first byte instead of the last
RECURSIVE prefix_end_scan_forward(_, _)
prefix_end_scan_forward(k, i) ==
    IF i > Len(k) THEN <<0>>
    ELSE IF k[i] < ByteMax
         THEN [SubSeq(k, 1, i) EXCEPT ![i] = k[i] + 1]
         ELSE prefix_end_scan_forward(k, i + 1)

get_prefix_end_key_forward(k) == prefix_end_scan_forward(k, 1)

\* increments the right byte but keeps the 0xFF bytes after it
RECURSIVE prefix_end_scan_keep(_, _)
prefix_end_scan_keep(k, i) ==
    IF i = 0 THEN <<0>>
    ELSE IF k[i] < ByteMax
         THEN [k EXCEPT ![i] = k[i] + 1]
         ELSE prefix_end_scan_keep(k, i - 1)

get_prefix_end_key_keep(k) == prefix_end_scan_keep(k, Len(k))

get_prefix_end_key(k) == prefix_end_scan(k, Len(k))

----------------------------------------------------------------------------
(* Physical expressions: Column, Literal, BinaryExpr and one expression kind
   that is not a BinaryExpr *)

PRIMARY_KEY_COLUMN_NAME == "__primary_key"

Column(name, index) == [kind |-> "Column", name |-> name, index |-> index]

Literal(value) == [kind |-> "Literal", value |-> value]

BinaryExpr(left, op, right) ==
    [kind |-> "BinaryExpr", left |-> left, op |-> op, right |-> right]

IsNullExpr(arg) == [kind |-> "IsNullExpr", arg |-> arg]

\* ScalarValue::Utf8(Some(v)), Utf8(None), Int64(Some(v)), Float64(Some(v)),
\* Binary(Some(v)); the payload's field is named after the variant
Utf8(v) == [type |-> "Utf8", some |-> TRUE, utf8 |-> v]

Utf8None == [type |-> "Utf8", some |-> FALSE]

Int64(v) == [type |-> "Int64", some |-> TRUE, int64 |-> v]

Float64(v) == [type |-> "Float64", some |-> TRUE, float64 |-> v]

Binary(v) == [type |-> "Binary", some |-> TRUE, binary |-> v]

\* Option and Transformed values
None == <<>>

Some(e) == <<e>>

TransformedYes(e) == [yes |-> TRUE, expr |-> e]

TransformedNo(e) == [yes |-> FALSE, expr |-> e]

----------------------------------------------------------------------------
(* The one-field row codec (crate::row_converter::McmpRowCodec), known here by
   its contract: order-preserving and prefix-free on the leading field.  The
   model takes every encoding table over EncSample that meets the contract. *)

\* string literals of the model, in ascending order
StringOrder == <<"us-east", "us-west">>

StringSample == {StringOrder[i] : i \in 1..Len(StringOrder)}

Rank(s) == CHOOSE i \in 1..Len(StringOrder) : StringOrder[i] = s

\* encodings a table may give to a string
EncSample == {<<1>>, <<1, ByteMax>>, <<2, 0>>, <<ByteMax>>, <<ByteMax, ByteMax>>}

OrderPreserving(c) ==
    \A a, b \in StringSample : Rank(a) < Rank(b) => BytesLt(c[a], c[b])

PrefixFree(c) ==
    \A a, b \in StringSample : a # b => ~IsPrefix(c[a], c[b])

CodecTables ==
    {c \in [StringSample -> EncSample] : OrderPreserving(c) /\ PrefixFree(c)}

\* McmpRowCodec::encode of one string field
encode(v) == codec[v]

\* McmpRowCodec::encode of a whole primary key: the encoding of the first field
\* followed by the encodings of the fields after it
encode_row(first, rest) == codec[first] \o rest

----------------------------------------------------------------------------
(* Region schemas seen through ReadFormat.  A column id is modelled by the
   column's name, so column_by_id is the identity. *)

SchemaSample ==
    { [primary_key |-> <<>>,
       field_columns |-> {"region", "host", "cpu_usage"},
       time_index |-> "ts", primary_key_position |-> 4],
      [primary_key |-> <<"region">>,
       field_columns |-> {"host", "cpu_usage"},
       time_index |-> "ts", primary_key_position |-> 3],
      [primary_key |-> <<"region", "host">>,
       field_columns |-> {"cpu_usage"},
       time_index |-> "ts", primary_key_position |-> 2] }

\* read_format.metadata().primary_key.get(0).and_then(column_by_id)
first_primary_key(rf) ==
    IF Len(rf.primary_key) > 0 THEN Some(rf.primary_key[1]) ELSE None

\* the names gathered into valid_set; the filter below never reads it
valid_set(rf) ==
    rf.field_columns
        \cup {first_primary_key(rf)[i] : i \in 1..Len(first_primary_key(rf))}
        \cup {rf.time_index}

----------------------------------------------------------------------------
(* PagePruningPredicateBuilder *)

\* emits key <= upper instead of key < upper
rewrite_primary_key_eq_lteq(rf, outermost) ==
    IF outermost.kind # "BinaryExpr" THEN TransformedNo(outermost)
    ELSE IF outermost.right.kind # "Literal" THEN TransformedNo(outermost)
    ELSE IF ~(outermost.right.value.type = "Utf8" /\ outermost.right.value.some)
    THEN TransformedNo(outermost)
    ELSE
        LET lower_bound == encode(outermost.right.value.utf8)
            upper_bound == get_prefix_end_key(lower_bound)
            pk_col == Column(PRIMARY_KEY_COLUMN_NAME, rf.primary_key_position)
        IN  TransformedYes(
                BinaryExpr(
                    BinaryExpr(pk_col, "GtEq", Literal(Binary(lower_bound))),
                    "And",
                    BinaryExpr(pk_col, "LtEq", Literal(Binary(upper_bound)))))

rewrite_primary_key_eq(rf, outermost) ==
    IF outermost.kind # "BinaryExpr" THEN TransformedNo(outermost)
    ELSE IF outermost.right.kind # "Literal" THEN TransformedNo(outermost)
    ELSE IF ~(outermost.right.value.type = "Utf8" /\ outermost.right.value.some)
    THEN TransformedNo(outermost)
    ELSE
        LET lower_bound == encode(outermost.right.value.utf8)
            upper_bound == get_prefix_end_key(lower_bound)
            pk_col == Column(PRIMARY_KEY_COLUMN_NAME, rf.primary_key_position)
        IN  TransformedYes(
                BinaryExpr(
                    BinaryExpr(pk_col, "GtEq", Literal(Binary(lower_bound))),
                    "And",
                    BinaryExpr(pk_col, "Lt", Literal(Binary(upper_bound)))))

\* returns None for an expression that is not a BinaryExpr
filter_map_closure_drop_other(e, rf) ==
    IF e.kind # "BinaryExpr" THEN None
    ELSE IF e.left.kind # "Column" THEN Some(e)
    ELSE IF /\ first_primary_key(rf) # None
            /\ first_primary_key(rf)[1] = e.left.name
    THEN LET transformed == rewrite_primary_key_eq(rf, e)
         IN  IF transformed.yes THEN Some(transformed.expr) ELSE None
    ELSE Some(e)

\* keeps the original expression when the rewrite does not apply
filter_map_closure_keep(e, rf) ==
    IF e.kind # "BinaryExpr" THEN Some(e)
    ELSE IF e.left.kind # "Column" THEN Some(e)
    ELSE IF /\ first_primary_key(rf) # None
            /\ first_primary_key(rf)[1] = e.left.name
    THEN LET transformed == rewrite_primary_key_eq(rf, e)
         IN  Some(transformed.expr)
    ELSE Some(e)

\* returns None when the left operand is not a Column
filter_map_closure_drop_noncolumn(e, rf) ==
    IF e.kind # "BinaryExpr" THEN Some(e)
    ELSE IF e.left.kind # "Column" THEN None
    ELSE IF /\ first_primary_key(rf) # None
            /\ first_primary_key(rf)[1] = e.left.name
    THEN LET transformed == rewrite_primary_key_eq(rf, e)
         IN  IF transformed.yes THEN Some(transformed.expr) ELSE None
    ELSE Some(e)

\* the closure handed to filter_map
filter_map_closure(e, rf) ==
    IF e.kind # "BinaryExpr" THEN Some(e)
    ELSE IF e.left.kind # "Column" THEN Some(e)
    ELSE IF /\ first_primary_key(rf) # None
            /\ first_primary_key(rf)[1] = e.left.name
    THEN LET transformed == rewrite_primary_key_eq(rf, e)
         IN  IF transformed.yes THEN Some(transformed.expr) ELSE None
    ELSE Some(e)

\* into_iter().filter_map(closure) from candidate i on; each kept expression
\* is paired with the index of the candidate it comes from
RECURSIVE filter_map_from(_, _, _)
filter_map_from(es, i, rf) ==
    IF i > Len(es) THEN <<>>
    ELSE LET r == filter_map_closure(es[i], rf)
         IN  (IF Len(r) = 0 THEN <<>> ELSE <<[src |-> i, expr |-> r[1]]>>)
                 \o filter_map_from(es, i + 1, rf)

filter_map_physical_expr(es, rf) ==
    LET kept == filter_map_from(es, 1, rf)
    IN  [k \in 1..Len(kept) |-> kept[k].expr]

filter_map_origin(es, rf) ==
    LET kept == filter_map_from(es, 1, rf)
    IN  [k \in 1..Len(kept) |-> kept[k].src]

\* fold(first_expr, |acc, e| BinaryExpr::new(acc, And, e)) from element i on
RECURSIVE fold_and(_, _, _)
fold_and(acc, es, i) ==
    IF i > Len(es) THEN acc
    ELSE fold_and(BinaryExpr(acc, "And", es[i]), es, i + 1)

\* folds the elements before the last and loses the popped one
conjoin_exprs_lose_popped(es) ==
    LET rest == SubSeq(es, 1, Len(es) - 1)
    IN  IF Len(rest) = 0 THEN es[Len(es)]
        ELSE fold_and(rest[1], rest, 2)

\* es is not empty: pop() takes the last element, the fold runs over the rest
conjoin_exprs(es) ==
    LET first_expr == es[Len(es)]
        rest == SubSeq(es, 1, Len(es) - 1)
    IN  IF Len(rest) = 0 THEN first_expr
        ELSE fold_and(first_expr, rest, 1)

\* the schemas of the region (logical columns) and of the file (physical
\* columns, the primary key stored as one encoded column)
arrow_schema(rf) ==
    [columns |-> rf.field_columns
                    \cup {rf.primary_key[i] : i \in 1..Len(rf.primary_key)}
                    \cup {rf.time_index}]

physical_schema(rf) ==
    [columns |-> rf.field_columns
                    \cup {rf.time_index, PRIMARY_KEY_COLUMN_NAME}]

\* PagePruningPredicate::try_new; whether the evaluator accepts the pair is
\* its own decision
try_new(expr, schema, accept) ==
    IF accept THEN [ok |-> TRUE, predicate |-> [expr |-> expr, schema |-> schema]]
    ELSE [ok |-> FALSE]

\* hands the region's schema to the evaluator instead of the file's
build_region_schema(predicate, rf, file_schema, accept) ==
    LET page_filter_exprs == filter_map_physical_expr(predicate, rf)
    IN  IF Len(page_filter_exprs) = 0
        THEN [ret |-> None, calls |-> <<>>]
        ELSE LET conjoined == conjoin_exprs(page_filter_exprs)
                 built == try_new(conjoined, arrow_schema(rf), accept)
             IN  [ret |-> IF built.ok THEN Some(built.predicate) ELSE None,
                  calls |-> <<[expr |-> conjoined, schema |-> arrow_schema(rf),
                               accepted |-> accept]>>]

\* PagePruningPredicateBuilder::build: the returned Option and the calls made
\* to the evaluator
build(predicate, rf, file_schema, accept) ==
    LET page_filter_exprs == filter_map_physical_expr(predicate, rf)
    IN  IF Len(page_filter_exprs) = 0
        THEN [ret |-> None, calls |-> <<>>]
        ELSE LET conjoined == conjoin_exprs(page_filter_exprs)
                 built == try_new(conjoined, file_schema, accept)
             IN  [ret |-> IF built.ok THEN Some(built.predicate) ELSE None,
                  calls |-> <<[expr |-> conjoined, schema |-> file_schema,
                               accepted |-> accept]>>]

----------------------------------------------------------------------------
(* Spec: the eligibility filter applied to a candidate predicate *)

CmpOps == {"Eq", "NotEq", "Lt", "LtEq", "Gt", "GtEq"}

ExprSample ==
    {BinaryExpr(Column("region", 0), op, Literal(Utf8(s))) :
        op \in CmpOps, s \in StringSample}
    \cup {BinaryExpr(Column("region", 0), op, r) :
            op \in {"Eq", "NotEq"},
            r \in {Literal(Utf8None), Literal(Int64(5)), Column("host", 1)}}
    \cup {BinaryExpr(Column("host", 1), op, Literal(Utf8("us-east"))) :
            op \in {"Eq", "NotEq"}}
    \cup {BinaryExpr(Column("cpu_usage", 2), "Gt", Literal(Float64("0.5"))),
          BinaryExpr(Column("ts", 3), "GtEq", Literal(Int64(10))),
          IsNullExpr(Column("region", 0)),
          BinaryExpr(Literal(Utf8("us-east")), "Eq", Column("region", 0))}

Predicates == UNION {[1..n -> ExprSample] : n \in 0..MaxExprs}

Init ==
    /\ pc = "filter_start"
    /\ read_format \in SchemaSample
    /\ codec \in CodecTables
    /\ exprs \in Predicates
    /\ out = <<>>
    /\ origin = <<>>
    /\ key = <<>>
    /\ end_key = <<>>
    /\ CallIdle

FilterMapPhysicalExpr ==
    /\ pc = "filter_start"
    /\ out' = filter_map_physical_expr(exprs, read_format)
    /\ origin' = filter_map_origin(exprs, read_format)
    /\ pc' = "filter_done"
    /\ UNCHANGED <<read_format, codec, exprs, key, end_key>>
    /\ UNCHANGED call_vars

Next == FilterMapPhysicalExpr

Spec == Init /\ [][Next]_vars

----------------------------------------------------------------------------
(* Properties of the eligibility filter, checked under Spec *)

\* positions of out that come from candidate i
Images(i) == {k \in 1..Len(out) : origin[k] = i}

\* e is a binary expression whose left operand is the first primary-key column
OnFirstPk(e) ==
    /\ e.kind = "BinaryExpr"
    /\ e.left.kind = "Column"
    /\ Len(read_format.primary_key) > 0
    /\ e.left.name = read_format.primary_key[1]

\* x is a non-null string literal
IsStringLit(x) ==
    /\ x.kind = "Literal"
    /\ x.value.type = "Utf8"
    /\ x.value.some

\* e is first_pk_column = <string literal>
IsFirstPkEqString(e) ==
    OnFirstPk(e) /\ e.op = "Eq" /\ IsStringLit(e.right)

EncodedKeyColumn ==
    Column(PRIMARY_KEY_COLUMN_NAME, read_format.primary_key_position)

\* (encoded_key_column >= lower) AND (encoded_key_column < upper)
RangeExpr(lower, upper) ==
    BinaryExpr(
        BinaryExpr(EncodedKeyColumn, "GtEq", Literal(Binary(lower))),
        "And",
        BinaryExpr(EncodedKeyColumn, "Lt", Literal(Binary(upper))))

\* e has the shape (column >= binary literal) AND (column < binary literal)
IsRange(e) ==
    /\ e.kind = "BinaryExpr"
    /\ e.op = "And"
    /\ e.left.kind = "BinaryExpr"
    /\ e.right.kind = "BinaryExpr"
    /\ e.left.op = "GtEq"
    /\ e.right.op = "Lt"
    /\ e.left.left.kind = "Column"
    /\ e.right.left.kind = "Column"
    /\ e.left.left.name = PRIMARY_KEY_COLUMN_NAME
    /\ e.right.left.name = PRIMARY_KEY_COLUMN_NAME

RangeLower(e) == e.left.right.value.binary

RangeUpper(e) == e.right.right.value.binary

\* the range predicate e evaluated on a row whose encoded key is k
EvalRange(e, k) == BytesLe(RangeLower(e), k) /\ BytesLt(k, RangeUpper(e))

C2_NonEqDropped ==
    pc = "filter_done" =>
        \A i \in 1..Len(exprs) :
            (OnFirstPk(exprs[i]) /\ exprs[i].op \in CmpOps \ {"Eq"}) =>
                Images(i) = {}

RewriteSoundBelowFF ==
    pc = "filter_done" =>
        \A i \in 1..Len(exprs) :
            (IsFirstPkEqString(exprs[i])
                /\ ~AllFF(codec[exprs[i].right.value.utf8])) =>
                \A k \in Images(i) :
                    \A first \in StringSample, rest \in ByteStrings(MaxRestLen) :
                        EvalRange(out[k], encode_row(first, rest))
                            <=> first = exprs[i].right.value.utf8

PassesThrough(e) ==
    \/ e.kind # "BinaryExpr"
    \/ e.left.kind # "Column"
    \/ Len(read_format.primary_key) = 0
    \/ e.left.name # read_format.primary_key[1]

C9_NonStringDropped ==
    pc = "filter_done" =>
        \A i \in 1..Len(exprs) :
            (OnFirstPk(exprs[i]) /\ ~IsStringLit(exprs[i].right)) =>
                Images(i) = {}

C9_Witness ==
    /\ pc = "filter_done"
    /\ read_format.primary_key = <<"region">>
    /\ exprs = <<BinaryExpr(Column("region", 0), "Eq", Literal(Int64(5))),
                 BinaryExpr(Column("cpu_usage", 2), "Gt", Literal(Float64("0.5")))>>
    /\ out = <<exprs[2]>>

\* C10: a comparison whose left operand is a column outside the valid
\* reference set (a tag column other than the first) is not in the output.
C10_OnlyValidColumns ==
    pc = "filter_done" =>
        \A i \in 1..Len(exprs) :
            (/\ exprs[i].kind = "BinaryExpr"
             /\ exprs[i].left.kind = "Column"
             /\ exprs[i].left.name \notin valid_set(read_format)) =>
                Images(i) = {}

----------------------------------------------------------------------------
(* SpecTwice: the eligibility filter applied to its own output *)

FilterAgain ==
    /\ pc = "filter_done"
    /\ ret' = filter_map_physical_expr(out, read_format)
    /\ pc' = "filter_twice"
    /\ UNCHANGED <<read_format, codec, exprs, out, origin, key, end_key>>
    /\ UNCHANGED <<node, other, input, decode_calls, try_new_calls>>

NextTwice == FilterMapPhysicalExpr \/ FilterAgain

SpecTwice == Init /\ [][NextTwice]_vars

ExprSet(es) == {es[k] : k \in 1..Len(es)}

\* C12: the filter applied to its own output yields the same set of
\* expressions as one application, and a range predicate emitted by the first
\* pass is still there, as it was, after the second.
C12_Idempotent ==
    pc = "filter_twice" =>
        /\ ExprSet(ret) = ExprSet(out)
        /\ \A k \in 1..Len(out) : IsRange(out[k]) => out[k] \in ExprSet(ret)

C12_Witness ==
    /\ pc = "filter_twice"
    /\ Len(exprs) = 2
    /\ Len(out) = 2
    /\ IsRange(out[1])
    /\ ~IsRange(out[2])
    /\ ret = out

----------------------------------------------------------------------------
(* SpecBuild: PagePruningPredicateBuilder::build *)

InitBuild ==
    /\ pc = "build_start"
    /\ read_format \in SchemaSample
    /\ codec \in CodecTables
    /\ exprs \in Predicates
    /\ input = [file_schema |-> physical_schema(read_format)]
    /\ out = <<>>
    /\ origin = <<>>
    /\ key = <<>>
    /\ end_key = <<>>
    /\ node = Idle
    /\ other = Idle
    /\ ret = Idle
    /\ decode_calls = 0
    /\ try_new_calls = <<>>

Build ==
    /\ pc = "build_start"
    /\ \E accept \in BOOLEAN :
        LET b == build(exprs, read_format, input.file_schema, accept)
        IN  /\ ret' = b.ret
            /\ try_new_calls' = b.calls
    /\ out' = filter_map_physical_expr(exprs, read_format)
    /\ origin' = filter_map_origin(exprs, read_format)
    /\ pc' = "build_done"
    /\ UNCHANGED <<read_format, codec, exprs, key, end_key>>
    /\ UNCHANGED <<node, other, input, decode_calls>>

NextBuild == Build

SpecBuild == InitBuild /\ [][NextBuild]_vars

\* C11: build returns None exactly when no candidate survives, and then the
\* evaluator is not called, or when the evaluator rejects the pair; otherwise it
\* returns the predicate the evaluator built from the expression it was handed
\* and the file's schema.  It has no other outcome.
C11_BuildOutcome ==
    pc = "build_done" =>
        /\ Len(ret) <= 1
        /\ Len(out) = 0 => try_new_calls = <<>>
        /\ Len(out) > 0 => Len(try_new_calls) = 1
        /\ ret = None <=>
            (Len(out) = 0 \/ \E c \in 1..Len(try_new_calls) :
                                ~try_new_calls[c].accepted)
        /\ ret # None =>
            /\ try_new_calls[1].schema = input.file_schema
            /\ ret = Some([expr |-> try_new_calls[1].expr,
                           schema |-> input.file_schema])

C11_Witness ==
    /\ pc = "build_done"
    /\ Len(out) = 1
    /\ Len(try_new_calls) = 1
    /\ ~try_new_calls[1].accepted
    /\ ret = None

\* the n conjuncts of a left-deep AND of n expressions, leftmost first; the
\* empty sequence if e is no such AND
RECURSIVE Conjuncts(_, _)
Conjuncts(e, n) ==
    IF n = 1 THEN <<e>>
    ELSE IF e.kind = "BinaryExpr" /\ e.op = "And"
              /\ Len(Conjuncts(e.left, n - 1)) = n - 1
         THEN Conjuncts(e.left, n - 1) \o <<e.right>>
         ELSE <<>>

Occurrences(es, x) == Cardinality({k \in 1..Len(es) : es[k] = x})

\* C17: with at least one survivor, the expression handed to the evaluator is
\* the AND of the survivors, each survivor one conjunct and no conjunct more; a
\* single survivor is handed over as it is.
C17_ConjoinedSurvivors ==
    (pc = "build_done" /\ Len(out) > 0) =>
        /\ Len(try_new_calls) = 1
        /\ LET cs == Conjuncts(try_new_calls[1].expr, Len(out)) IN
            /\ Len(cs) = Len(out)
            /\ \A k \in 1..Len(out) :
                Occurrences(cs, out[k]) = Occurrences(out, out[k])
        /\ Len(out) = 1 => try_new_calls[1].expr = out[1]

C17_Witness ==
    /\ pc = "build_done"
    /\ Len(out) = 2
    /\ out[1] # out[2]
    /\ IsRange(out[1])
    /\ try_new_calls[1].expr = BinaryExpr(out[2], "And", out[1])

----------------------------------------------------------------------------
(* DecodePrimaryKey *)

\* the schemas a node is built for: those of SchemaSample that have a primary
\* key, and one whose primary key lists the same tags in the other order
DecodeSchemaSample ==
    {rf \in SchemaSample : Len(rf.primary_key) > 0}
    \cup { [primary_key |-> <<"host", "region">>,
            field_columns |-> {"cpu_usage"},
            time_index |-> "ts", primary_key_position |-> 2] }

\* column_schema.data_type of a tag column, and its arrow type
column_data_type(rf, name) == "String"

as_arrow_type(concrete_datatype) ==
    IF concrete_datatype = "String" THEN "Utf8" ELSE concrete_datatype

\* 0-based position of the column in the primary key
relative_index(rf, name) ==
    (CHOOSE i \in 1..Len(rf.primary_key) : rf.primary_key[i] = name) - 1

\* DecodePrimaryKey::new; required_column is a primary-key column of rf
DecodePrimaryKey_new(rf, required_column) ==
    [read_format |-> rf,
     encoded_column |-> Column(PRIMARY_KEY_COLUMN_NAME, rf.primary_key_position),
     required_column_name |-> required_column,
     required_index |-> relative_index(rf, required_column),
     decoder |-> <<column_data_type(rf, required_column)>>,
     datatype |-> as_arrow_type(column_data_type(rf, required_column)),
     concrete_datatype |-> column_data_type(rf, required_column)]

\* McmpRowCodec::encode of the primary-key fields fs, in key order
RECURSIVE encode_key(_)
encode_key(fs) ==
    IF Len(fs) = 0 THEN <<>> ELSE codec[Head(fs)] \o encode_key(Tail(fs))

\* McmpRowCodec::decode by a codec of n string fields: the fields are read one
\* after the other from the front of bytes; bytes after the last field are
\* not read
RECURSIVE decode(_, _)
decode(n, bytes) ==
    IF n = 0 THEN [ok |-> TRUE, values |-> <<>>]
    ELSE IF \A v \in StringSample : ~IsPrefix(codec[v], bytes)
         THEN [ok |-> FALSE]
         ELSE LET v == CHOOSE w \in StringSample : IsPrefix(codec[w], bytes)
                  rest == decode(n - 1, SubSeq(bytes, Len(codec[v]) + 1, Len(bytes)))
              IN  IF rest.ok
                  THEN [ok |-> TRUE, values |-> <<v>> \o rest.values]
                  ELSE [ok |-> FALSE]

\* Value::try_to_scalar_value; whether the conversion succeeds is decided
\* outside this code
try_to_scalar_value(value, concrete_datatype, conv_ok) ==
    IF conv_ok THEN [ok |-> TRUE, value |-> Utf8(value)] ELSE [ok |-> FALSE]

\* ScalarValue::try_from(&datatype): the null of that type
NullOf(datatype) == [type |-> datatype, some |-> FALSE]

\* outcomes of a call
Ok(v) == [kind |-> "Ok", value |-> v]

Err(e) == [kind |-> "Err", error |-> e]

Panic == [kind |-> "Panic"]

\* ColumnarValue
Scalar(v) == [cv |-> "Scalar", value |-> v]

Array(rows) == [cv |-> "Array", rows |-> rows]

\* turns a decode error into a null value
decode_one_swallow(n, bytes, conv_ok) ==
    LET decoded == decode(Len(n.decoder), bytes)
    IN  IF ~decoded.ok THEN Ok(NullOf(n.datatype))
        ELSE IF n.required_index + 1 > Len(decoded.values) THEN Panic
        ELSE LET sv == try_to_scalar_value(decoded.values[n.required_index + 1],
                                           n.concrete_datatype, conv_ok)
             IN  IF sv.ok THEN Ok(sv.value) ELSE Err("External")

\* DecodePrimaryKey::decode_one; indexing past the decoded values panics
decode_one(n, bytes, conv_ok) ==
    LET decoded == decode(Len(n.decoder), bytes)
    IN  IF ~decoded.ok THEN Err("External")
        ELSE IF n.required_index + 1 > Len(decoded.values) THEN Panic
        ELSE LET sv == try_to_scalar_value(decoded.values[n.required_index + 1],
                                           n.concrete_datatype, conv_ok)
             IN  IF sv.ok THEN Ok(sv.value) ELSE Err("External")

\* answers a scalar of another kind with a null instead of an error
evaluate_null_for_other(n, encoded_col, conv_ok) ==
    IF encoded_col.cv = "Err" THEN [result |-> Err("Child"), decodes |-> 0]
    ELSE IF encoded_col.cv = "Array" THEN [result |-> Panic, decodes |-> 0]
    ELSE IF encoded_col.value.type = "Binary" /\ encoded_col.value.some
    THEN LET scalar_value == decode_one(n, encoded_col.value.binary, conv_ok)
         IN  [result |-> IF scalar_value.kind = "Ok"
                         THEN Ok(Scalar(scalar_value.value))
                         ELSE scalar_value,
              decodes |-> 1]
    ELSE [result |-> Ok(Scalar(NullOf(n.datatype))), decodes |-> 0]

\* DecodePrimaryKey::evaluate, given what the child yields for the batch: the
\* outcome and the number of decode calls made.  The Array arm ends in todo!()
evaluate(n, encoded_col, conv_ok) ==
    IF encoded_col.cv = "Err" THEN [result |-> Err("Child"), decodes |-> 0]
    ELSE IF encoded_col.cv = "Array" THEN [result |-> Panic, decodes |-> 0]
    ELSE IF encoded_col.value.type = "Binary" /\ encoded_col.value.some
    THEN LET scalar_value == decode_one(n, encoded_col.value.binary, conv_ok)
         IN  [result |-> IF scalar_value.kind = "Ok"
                         THEN Ok(Scalar(scalar_value.value))
                         ELSE scalar_value,
              decodes |-> 1]
    ELSE IF encoded_col.value.type = "Binary"
    THEN [result |-> Ok(Scalar(NullOf(n.datatype))), decodes |-> 0]
    ELSE [result |-> Err("Internal"), decodes |-> 0]

\* DecodePrimaryKey::with_new_children
with_new_children(n, children) ==
    IF Len(children) = 0 THEN Err("Internal")
    ELSE IF children[1].kind # "Column" THEN Err("Internal")
    ELSE Ok([n EXCEPT !.encoded_column = children[1]])

\* compares the target column's name only
node_eq_name_only(a, b) ==
    a.required_column_name = b.required_column_name

\* the derived PartialEq: field by field
node_eq(a, b) ==
    /\ a.read_format = b.read_format
    /\ a.encoded_column = b.encoded_column
    /\ a.required_column_name = b.required_column_name
    /\ a.required_index = b.required_index
    /\ a.decoder = b.decoder
    /\ a.datatype = b.datatype
    /\ a.concrete_datatype = b.concrete_datatype

\* DecodePrimaryKey::dyn_hash: the values fed to the hasher, in order
dyn_hash(n) == <<arrow_schema(n.read_format), n.encoded_column, n.datatype>>

----------------------------------------------------------------------------
(* SpecDecode: the calls on a DecodePrimaryKey node *)

\* encoded keys of the rows of a region with schema rf
WellFormedKeys(rf) ==
    {encode_key(fs) : fs \in [1..Len(rf.primary_key) -> StringSample]}

\* byte strings no table decodes: empty, an unknown marker, a cut encoding
MalformedSample == {<<>>, <<0>>, <<2>>}

BinaryNone == [type |-> "Binary", some |-> FALSE]

\* the child's own evaluation failed
ChildErr == [cv |-> "Err"]

\* what the child can yield for a batch
ChildValues(rf) ==
    {Scalar(Binary(k)) : k \in WellFormedKeys(rf) \cup MalformedSample}
    \cup {Scalar(BinaryNone), Scalar(Utf8("us-east")), Scalar(Int64(5)),
          Scalar(Utf8None)}
    \cup {Array(<<>>), ChildErr}
    \cup {Array(<<Binary(k), BinaryNone>>) : k \in WellFormedKeys(rf)}

\* replacement children handed to with_new_children
ChildrenSample ==
    LET cols == {Column(PRIMARY_KEY_COLUMN_NAME, 2),
                 Column(PRIMARY_KEY_COLUMN_NAME, 3), Column("ts", 1)}
        others == {Literal(Utf8("us-east")),
                   BinaryExpr(Column("ts", 1), "Gt", Literal(Int64(10)))}
        all == cols \cup others
    IN  {<<>>} \cup {<<c>> : c \in all} \cup {<<c, d>> : c \in all, d \in all}

\* the nodes a node is compared with: every node new can build
NodeSample ==
    UNION {{DecodePrimaryKey_new(rf, rf.primary_key[i]) :
                i \in 1..Len(rf.primary_key)} : rf \in DecodeSchemaSample}

InitDecode ==
    /\ pc = "decode_ready"
    /\ read_format \in DecodeSchemaSample
    /\ codec \in CodecTables
    /\ \E i \in 1..Len(read_format.primary_key) :
        node = DecodePrimaryKey_new(read_format, read_format.primary_key[i])
    /\ other = Idle
    /\ input = Idle
    /\ ret = Idle
    /\ decode_calls = 0
    /\ try_new_calls = <<>>
    /\ exprs = <<>>
    /\ out = <<>>
    /\ origin = <<>>
    /\ key = <<>>
    /\ end_key = <<>>

Evaluate ==
    /\ pc = "decode_ready"
    /\ \E child \in ChildValues(node.read_format), conv_ok \in BOOLEAN :
        LET r == evaluate(node, child, conv_ok)
        IN  /\ input' = [child |-> child, conv_ok |-> conv_ok]
            /\ ret' = r.result
            /\ decode_calls' = decode_calls + r.decodes
    /\ pc' = "evaluate_done"
    /\ UNCHANGED <<read_format, codec, exprs, out, origin, key, end_key>>
    /\ UNCHANGED <<node, other, try_new_calls>>

WithNewChildren ==
    /\ pc = "decode_ready"
    /\ \E children \in ChildrenSample :
        /\ input' = [children |-> children, self |-> node]
        /\ ret' = with_new_children(node, children)
    /\ pc' = "with_new_children_done"
    /\ UNCHANGED <<read_format, codec, exprs, out, origin, key, end_key>>
    /\ UNCHANGED <<node, other, decode_calls, try_new_calls>>

\* the caller takes the rebound node in place of the original
TakeRebound ==
    /\ pc = "with_new_children_done"
    /\ ret.kind = "Ok"
    /\ node' = ret.value
    /\ pc' = "decode_ready"
    /\ input' = Idle
    /\ ret' = Idle
    /\ UNCHANGED <<read_format, codec, exprs, out, origin, key, end_key>>
    /\ UNCHANGED <<other, decode_calls, try_new_calls>>

Compare ==
    /\ pc = "decode_ready"
    /\ \E o \in NodeSample :
        /\ other' = o
        /\ ret' = [eq |-> node_eq(node, o),
                   hash_self |-> dyn_hash(node),
                   hash_other |-> dyn_hash(o)]
    /\ pc' = "eq_done"
    /\ UNCHANGED <<read_format, codec, exprs, out, origin, key, end_key>>
    /\ UNCHANGED <<node, input, decode_calls, try_new_calls>>

NextDecode == Evaluate \/ WithNewChildren \/ TakeRebound \/ Compare

SpecDecode == InitDecode /\ [][NextDecode]_vars

----------------------------------------------------------------------------
(* Properties of DecodePrimaryKey, checked under SpecDecode *)

\* the primary-key field values a row of the node's region can have
KeyFields == [1..Len(node.read_format.primary_key) -> StringSample]

\* C13: for a node built for the primary-key column at any position k,
\* evaluate on a well-formed scalar encoded key returns, without failing, the
\* decoded k-th field of the key as a scalar of the column's type.
C13_DecodesKthField ==
    pc = "evaluate_done" =>
        \A fs \in KeyFields :
            (input.child = Scalar(Binary(encode_key(fs))) /\ input.conv_ok) =>
                ret = Ok(Scalar(Utf8(fs[node.required_index + 1])))

\* C13 for the nodes built for the first primary-key column (not the claim:
\* it locates the failure of C13_DecodesKthField)
DecodesFirstField ==
    (pc = "evaluate_done" /\ node.required_index = 0) =>
        \A fs \in KeyFields :
            (input.child = Scalar(Binary(encode_key(fs))) /\ input.conv_ok) =>
                ret = Ok(Scalar(Utf8(fs[1])))

\* C14: when the child yields a column of encoded keys, evaluate returns a
\* column of as many rows, and a null row stays a null row.
C14_ArrayDecoded ==
    (pc = "evaluate_done" /\ input.child.cv = "Array") =>
        /\ ret.kind = "Ok"
        /\ ret.value.cv = "Array"
        /\ Len(ret.value.rows) = Len(input.child.rows)
        /\ \A i \in 1..Len(input.child.rows) :
            ~input.child.rows[i].some => ~ret.value.rows[i].some

\* C15: a scalar encoded key the codec rejects makes evaluate return an error,
\* and so does a failed conversion of the decoded value; neither becomes a
\* value.
C15_DecodeErrorSurfaced ==
    (/\ pc = "evaluate_done"
     /\ input.child.cv = "Scalar"
     /\ input.child.value.type = "Binary"
     /\ input.child.value.some) =>
        LET bytes == input.child.value.binary
            rejected == \A v \in StringSample : ~IsPrefix(codec[v], bytes)
        IN  /\ rejected => ret.kind = "Err"
            /\ (~rejected /\ node.required_index = 0 /\ ~input.conv_ok) =>
                    ret.kind = "Err"

C15_Witness ==
    /\ pc = "evaluate_done"
    /\ input.child = Scalar(Binary(<<0>>))
    /\ ret = Err("External")
    /\ decode_calls = 1

\* C18: with_new_children succeeds exactly when it is given one child and
\* that child is a Column; on success the new node has that child and the
\* original's other fields, and the original is unchanged.
C18_ExactlyOneColumnChild ==
    pc = "with_new_children_done" =>
        /\ ret.kind = "Ok" <=>
            (Len(input.children) = 1 /\ input.children[1].kind = "Column")
        /\ ret.kind = "Ok" =>
            /\ ret.value = [input.self EXCEPT !.encoded_column = input.children[1]]
            /\ node = input.self

\* C19: two nodes are equal exactly when they have the same target column
\* name, the same child and the same output type, and equal nodes hash alike.
C19_EqIffNameChildType ==
    pc = "eq_done" =>
        /\ ret.eq <=>
            (/\ node.required_column_name = other.required_column_name
             /\ node.encoded_column = other.encoded_column
             /\ node.datatype = other.datatype)
        /\ ret.eq => ret.hash_self = ret.hash_other

\* C19 as amended: two nodes are equal exactly when they agree in every field;
\* equal nodes have the same target column name, child and output type, and
\* hash alike.
C19_EqAllFields ==
    pc = "eq_done" =>
        /\ ret.eq <=> node = other
        /\ ret.eq =>
            /\ node.required_column_name = other.required_column_name
            /\ node.encoded_column = other.encoded_column
            /\ node.datatype = other.datatype
            /\ ret.hash_self = ret.hash_other

C19_Witness ==
    /\ pc = "eq_done"
    /\ ret.eq
    /\ node = other
    /\ node.required_index = 1
    /\ ret.hash_self = ret.hash_other

\* C20: on a scalar binary null, evaluate returns the null of the node's output
\* type and does not call the codec; on a scalar of any other kind it returns
\* an error.
C20_NullAndOtherScalars ==
    (pc = "evaluate_done" /\ input.child.cv = "Scalar") =>
        /\ input.child.value = BinaryNone =>
            /\ ret = Ok(Scalar(NullOf(node.datatype)))
            /\ decode_calls = 0
        /\ input.child.value.type # "Binary" => ret.kind = "Err"

C20_Witness ==
    /\ pc = "evaluate_done"
    /\ input.child = Scalar(BinaryNone)
    /\ ret = Ok(Scalar(Utf8None))
    /\ decode_calls = 0

----------------------------------------------------------------------------
(* SpecConcurrent: several workers call evaluate on one shared node *)

MaxWorkers == 2

Workers == 1..MaxWorkers

\* the batches the workers evaluate, each by what the child yields for it and
\* by whether the conversion of a decoded value succeeds
BatchSample(rf) ==
    {[child |-> c, conv_ok |-> TRUE] :
        c \in {Scalar(Binary(k)) : k \in WellFormedKeys(rf)}
              \cup {Scalar(Binary(<<0>>)), Scalar(BinaryNone),
                    Scalar(Int64(5)), Array(<<>>), ChildErr}}
    \cup {[child |-> Scalar(Binary(encode_key([i \in 1..Len(rf.primary_key)
                                                |-> "us-east"]))),
           conv_ok |-> FALSE]}

\* keeps a scratch in the node: the index is reset after the match
evaluate_match_reset_index(n, encoded_col, conv_ok) ==
    LET r == evaluate(n, encoded_col, conv_ok)
    IN  [self |-> [n EXCEPT !.required_index = 0],
         result |-> r.result, decodes |-> r.decodes]

\* the match of evaluate on the child's value: self is borrowed immutably and
\* no field has interior mutability, so the node after the step is the node
\* before it
evaluate_match(n, encoded_col, conv_ok) ==
    LET r == evaluate(n, encoded_col, conv_ok)
    IN  [self |-> n, result |-> r.result, decodes |-> r.decodes]

InitConcurrent ==
    /\ pc = [w \in Workers |-> "idle"]
    /\ read_format \in DecodeSchemaSample
    /\ codec \in CodecTables
    /\ \E i \in 1..Len(read_format.primary_key) :
        node = DecodePrimaryKey_new(read_format, read_format.primary_key[i])
    /\ other = Idle
    /\ input = [w \in Workers |-> Idle]
    /\ ret = [w \in Workers |-> Idle]
    /\ decode_calls = 0
    /\ try_new_calls = <<>>
    /\ exprs = <<>>
    /\ out = <<>>
    /\ origin = <<>>
    /\ key = <<>>
    /\ end_key = <<>>

\* worker w calls evaluate(&self, batch)
EvaluateCall(w) ==
    /\ pc[w] = "idle"
    /\ \E batch \in BatchSample(node.read_format) :
        input' = [input EXCEPT ![w] = batch]
    /\ pc' = [pc EXCEPT ![w] = "evaluate_called"]
    /\ UNCHANGED <<read_format, codec, exprs, out, origin, key, end_key>>
    /\ UNCHANGED <<node, other, ret, decode_calls, try_new_calls>>

\* let encoded_col = self.encoded_column.evaluate(batch)?
EvaluateChild(w) ==
    /\ pc[w] = "evaluate_called"
    /\ IF input[w].child.cv = "Err"
       THEN /\ ret' = [ret EXCEPT ![w] = Err("Child")]
            /\ pc' = [pc EXCEPT ![w] = "evaluate_done"]
            /\ UNCHANGED input
       ELSE /\ input' = [input EXCEPT ![w] =
                            [child |-> input[w].child,
                             conv_ok |-> input[w].conv_ok,
                             encoded_col |-> input[w].child]]
            /\ pc' = [pc EXCEPT ![w] = "child_evaluated"]
            /\ UNCHANGED ret
    /\ UNCHANGED <<read_format, codec, exprs, out, origin, key, end_key>>
    /\ UNCHANGED <<node, other, decode_calls, try_new_calls>>

\* match encoded_col { .. }
EvaluateMatch(w) ==
    /\ pc[w] = "child_evaluated"
    /\ LET r == evaluate_match(node, input[w].encoded_col, input[w].conv_ok)
       IN  /\ node' = r.self
           /\ ret' = [ret EXCEPT ![w] = r.result]
           /\ decode_calls' = decode_calls + r.decodes
    /\ pc' = [pc EXCEPT ![w] = "evaluate_done"]
    /\ UNCHANGED <<read_format, codec, exprs, out, origin, key, end_key>>
    /\ UNCHANGED <<other, input, try_new_calls>>

NextConcurrent ==
    \E w \in Workers : EvaluateCall(w) \/ EvaluateChild(w) \/ EvaluateMatch(w)

SpecConcurrent == InitConcurrent /\ [][NextConcurrent]_vars

\* what the call of worker w returns when it runs alone on its batch, on the
\* node as it was constructed
AloneResult(w) ==
    evaluate(DecodePrimaryKey_new(read_format, node.required_column_name),
             input[w].child, input[w].conv_ok).result

----------------------------------------------------------------------------
(* RegionId: a u64 packed from a table id and a region number *)

(* A u32 is written as two 16-bit limbs <<high, low>> and a u64 as four,
   most significant first, so that every operation keeps its width: the
   numbers themselves do not fit the checker's integers.  The u64
   <<a, b, c, d>> has the value ((a * 2^16 + b) * 2^16 + c) * 2^16 + d. *)
LimbMax == 65535

Limb == 0..LimbMax

LimbSample == {0, 1, 32768, LimbMax}

U32Sample == {<<h, l>> : h \in LimbSample, l \in LimbSample}

U64Sample ==
    {<<a, b, c, d>> : a \in LimbSample, b \in LimbSample,
                      c \in LimbSample, d \in LimbSample}

\* x as u64, for a u32 x: zero extension
as_u64_from_u32(x) == <<0, 0, x[1], x[2]>>

\* x as u32, for a u64 x: the low half
as_u32(x) == <<x[3], x[4]>>

\* x << 32 and x >> 32 on a u64
shl_32(x) == <<x[3], x[4], 0, 0>>

shr_32(x) == <<0, 0, x[1], x[2]>>

\* bitwise or of two limbs, and of two u64
RECURSIVE limb_or(_, _)
limb_or(a, b) ==
    IF a = 0 THEN b
    ELSE IF b = 0 THEN a
    ELSE (IF a % 2 = 1 \/ b % 2 = 1 THEN 1 ELSE 0)
            + 2 * limb_or(a \div 2, b \div 2)

bit_or(x, y) == [i \in 1..4 |-> limb_or(x[i], y[i])]

\* leaves the shift out: the two halves share the low 32 bits
RegionId_new_unshifted(table_id_arg, region_number_arg) ==
    bit_or(as_u64_from_u32(table_id_arg), as_u64_from_u32(region_number_arg))

\* RegionId::new
RegionId_new(table_id_arg, region_number_arg) ==
    bit_or(shl_32(as_u64_from_u32(table_id_arg)), as_u64_from_u32(region_number_arg))

\* RegionId::table_id
table_id(id) == as_u32(shr_32(id))

\* RegionId::region_number
region_number(id) == as_u32(id)

\* RegionId::as_u64 and RegionId::from_u64
as_u64(id) == id

from_u64(v) == v

\* From<u64> for RegionId, From<RegionId> for u64
RegionId_from(v) == from_u64(v)

u64_from(id) == as_u64(id)

\* PartialEq<u64> for RegionId and PartialEq<RegionId> for u64
RegionId_eq_u64(id, v) == id = v

u64_eq_RegionId(v, id) == v = id

----------------------------------------------------------------------------
(* SpecRegionId: region ids are built and read back *)

InitRegionId ==
    /\ pc = "region_id_ready"
    /\ read_format = Idle
    /\ codec = Idle
    /\ exprs = <<>>
    /\ out = <<>>
    /\ origin = <<>>
    /\ key = <<>>
    /\ end_key = <<>>
    /\ CallIdle

RegionIdNew ==
    /\ pc = "region_id_ready"
    /\ \E t \in U32Sample, r \in U32Sample :
        LET id == RegionId_new(t, r)
        IN  /\ input' = [table_id |-> t, region_number |-> r]
            /\ ret' = [id |-> id,
                       table_id |-> table_id(id),
                       region_number |-> region_number(id),
                       as_u64 |-> as_u64(id)]
    /\ pc' = "region_id_new"
    /\ UNCHANGED <<read_format, codec, exprs, out, origin, key, end_key>>
    /\ UNCHANGED <<node, other, decode_calls, try_new_calls>>

RegionIdFromU64 ==
    /\ pc = "region_id_ready"
    /\ \E v \in U64Sample :
        /\ input' = [u64 |-> v]
        /\ ret' = [id |-> from_u64(v),
                   as_u64 |-> as_u64(from_u64(v)),
                   into_u64 |-> u64_from(RegionId_from(v)),
                   eq_u64 |-> RegionId_eq_u64(RegionId_from(v), v)
                              /\ u64_eq_RegionId(v, RegionId_from(v)),
                   rebuilt |-> RegionId_new(table_id(from_u64(v)),
                                            region_number(from_u64(v)))]
    /\ pc' = "region_id_from_u64"
    /\ UNCHANGED <<read_format, codec, exprs, out, origin, key, end_key>>
    /\ UNCHANGED <<node, other, decode_calls, try_new_calls>>

NextRegionId == RegionIdNew \/ RegionIdFromU64

SpecRegionId == InitRegionId /\ [][NextRegionId]_vars

\* C16: RegionId::new(t, r) is the u64 whose high half is t and whose low
\* half is r (t * 2^32 + r); table_id gives t back and region_number gives r
\* back, also for t = u32::MAX; a u64 made a RegionId and turned back is the
\* same u64.
C16_RegionIdRoundTrip ==
    /\ pc = "region_id_new" =>
        /\ ret.id = <<input.table_id[1], input.table_id[2],
                      input.region_number[1], input.region_number[2]>>
        /\ \A i \in 1..4 : ret.id[i] \in Limb
        /\ ret.table_id = input.table_id
        /\ ret.region_number = input.region_number
        /\ ret.as_u64 = ret.id
    /\ pc = "region_id_from_u64" =>
        /\ ret.as_u64 = input.u64
        /\ ret.into_u64 = input.u64
        /\ ret.eq_u64
        /\ ret.rebuilt = ret.id

C16_Witness ==
    /\ pc = "region_id_new"
    /\ input.table_id = <<LimbMax, LimbMax>>
    /\ input.region_number = <<32768, 1>>
    /\ ret.id = <<LimbMax, LimbMax, 32768, 1>>
    /\ ret.table_id = <<LimbMax, LimbMax>>
    /\ ret.region_number = <<32768, 1>>

----------------------------------------------------------------------------
(* SpecPrefixEnd *)

InitPrefixEnd ==
    /\ pc = "prefix_start"
    /\ key \in ByteStrings(MaxKeyLen)
    /\ end_key = <<>>
    /\ read_format = Idle
    /\ codec = Idle
    /\ exprs = <<>>
    /\ out = <<>>
    /\ origin = <<>>
    /\ CallIdle

CallPrefixEnd ==
    /\ pc = "prefix_start"
    /\ end_key' = get_prefix_end_key(key)
    /\ pc' = "prefix_done"
    /\ UNCHANGED <<read_format, codec, exprs, out, origin, key>>
    /\ UNCHANGED call_vars

NextPrefixEnd == CallPrefixEnd

SpecPrefixEnd == InitPrefixEnd /\ [][NextPrefixEnd]_vars

----------------------------------------------------------------------------
(* Properties of get_prefix_end_key, checked under SpecPrefixEnd *)

\* position of the last byte of k that is below 0xFF
LastBelowFF(k) ==
    CHOOSE i \in 1..Len(k) :
        k[i] < ByteMax /\ \A j \in (i + 1)..Len(k) : k[j] = ByteMax

\* C4: for a non-empty key p that is not all 0xFF, a byte string q lies in
\* [p, prefix_end(p)) exactly when p is a prefix of q.
C4_PrefixRangeExact ==
    (pc = "prefix_done" /\ key # <<>> /\ ~AllFF(key)) =>
        \A q \in ByteStrings(MaxKeyLen + 1) :
            (BytesLe(key, q) /\ BytesLt(q, end_key)) <=> IsPrefix(key, q)

C4_Witness ==
    /\ pc = "prefix_done"
    /\ key = <<1, ByteMax>>
    /\ end_key = <<2>>
    /\ BytesLe(key, <<1, ByteMax, 0>>) /\ BytesLt(<<1, ByteMax, 0>>, end_key)
    /\ ~BytesLt(<<2>>, end_key)

\* C5: when the key has a byte below 0xFF, the result is the key cut just after
\* its last such byte, that byte plus one, the earlier bytes unchanged, and
\* every byte of the result still fits in a u8.
C5_PrefixEndShape ==
    (pc = "prefix_done" /\ ~AllFF(key)) =>
        LET i == LastBelowFF(key) IN
            /\ Len(end_key) = i
            /\ end_key[i] = key[i] + 1
            /\ \A j \in 1..(i - 1) : end_key[j] = key[j]
            /\ \A j \in 1..i : end_key[j] \in 0..ByteMax

C5_Witness ==
    /\ pc = "prefix_done"
    /\ key = <<1, ByteMax, ByteMax>>
    /\ end_key = <<2>>

\* C6: for an empty or all-0xFF key the result is no concrete byte string such
\* as [0x00], and the result is never lexicographically <= the key.
C6_NoSentinel ==
    pc = "prefix_done" =>
        /\ AllFF(key) => end_key # <<0>>
        /\ BytesLt(key, end_key)

====
